---- MODULE Spec2Model ----
(***************************************************************************)
(* Model of the relay: the signed envelope (src/src/lib.rs, crypto.rs) and *)
(* the relay store handlers (src/relay-server/src/text.rs, profile.rs).    *)
(***************************************************************************)
EXTENDS Integers, Sequences, FiniteSets, TLC

(***************************************************************************)
(* Bounds of the model.                                                    *)
(***************************************************************************)
MaxTime == 2
MaxPosts == 2
\* how many rows the profiles table takes
MaxProfiles == 2

(***************************************************************************)
(* Program constants.                                                      *)
(***************************************************************************)
ED25519_SIGNATURE_LEN == 64
ED25519_PUBLIC_KEY_LEN == 32

(***************************************************************************)
(* Base64 (the standard alphabet, canonical padding required).  A string   *)
(* is a sequence of characters; characters 0..63 are the alphabet in       *)
(* order, PadChar is '=', any other value is a character outside the       *)
(* alphabet.                                                               *)
(***************************************************************************)
PadChar == 64
BadChar == 65

RECURSIVE B64EncodeFrom(_, _)
B64EncodeFrom(bytes, i) ==
    LET n == Len(bytes) - i + 1 IN
    IF n <= 0 THEN <<>>
    ELSE IF n = 1 THEN
        << bytes[i] \div 4, (bytes[i] % 4) * 16, PadChar, PadChar >>
    ELSE IF n = 2 THEN
        << bytes[i] \div 4,
           (bytes[i] % 4) * 16 + (bytes[i + 1] \div 16),
           (bytes[i + 1] % 16) * 4,
           PadChar >>
    ELSE
        << bytes[i] \div 4,
           (bytes[i] % 4) * 16 + (bytes[i + 1] \div 16),
           (bytes[i + 1] % 16) * 4 + (bytes[i + 2] \div 64),
           bytes[i + 2] % 64 >>
        \o B64EncodeFrom(bytes, i + 3)

\* BASE64_STANDARD.encode
B64Encode(bytes) == B64EncodeFrom(bytes, 1)

\* number of trailing '=' of a string (at most 2 are looked at)
B64PadCount(s) ==
    IF Len(s) >= 1 /\ s[Len(s)] = PadChar
    THEN IF Len(s) >= 2 /\ s[Len(s) - 1] = PadChar THEN 2 ELSE 1
    ELSE 0

RECURSIVE B64DecodeFrom(_, _, _)
\* the bytes of the d data characters of s from position i on
B64DecodeFrom(s, i, d) ==
    LET n == d - i + 1 IN
    IF n <= 0 THEN <<>>
    ELSE IF n = 2 THEN
        << s[i] * 4 + (s[i + 1] \div 16) >>
    ELSE IF n = 3 THEN
        << s[i] * 4 + (s[i + 1] \div 16),
           (s[i + 1] % 16) * 16 + (s[i + 2] \div 4) >>
    ELSE
        << s[i] * 4 + (s[i + 1] \div 16),
           (s[i + 1] % 16) * 16 + (s[i + 2] \div 4),
           (s[i + 2] % 4) * 64 + s[i + 3] >>
        \o B64DecodeFrom(s, i + 4, d)

\* BASE64_STANDARD decoding: Err on a character outside the alphabet, on a
\* length that is no multiple of four, on misplaced or missing padding and on
\* non-zero trailing bits; otherwise the decoded bytes.
B64Decode(s) ==
    LET p == B64PadCount(s)
        d == Len(s) - p
        r == d % 4
    IN  IF \/ \E i \in 1..d : s[i] \notin 0..63
           \/ Len(s) % 4 # 0
           \/ r = 1
           \/ (r = 0 /\ p # 0)
           \/ (r = 2 /\ (p # 2 \/ s[d] % 16 # 0))
           \/ (r = 3 /\ (p # 1 \/ s[d] % 4 # 0))
        THEN [ok |-> FALSE, bytes |-> <<>>]
        ELSE [ok |-> TRUE, bytes |-> B64DecodeFrom(s, 1, d)]

\* decode_slice_unchecked into a zeroed buffer of n bytes: Err on a decode
\* error, a panic when the decoded data does not fit, otherwise the buffer,
\* whose bytes past the decoded ones keep their initial zero.
DecodeIntoZeroed(s, n) ==
    LET dec == B64Decode(s) IN
    IF ~dec.ok THEN [kind |-> "none", bytes |-> <<>>]
    ELSE IF Len(dec.bytes) > n THEN [kind |-> "panic", bytes |-> <<>>]
    ELSE [kind |-> "some",
          bytes |-> [i \in 1..n |->
                        IF i <= Len(dec.bytes) THEN dec.bytes[i] ELSE 0]]

\* Signature::from_base64
Signature_from_base64(s) == DecodeIntoZeroed(s, ED25519_SIGNATURE_LEN)

\* PublicKey::from_base64
PublicKey_from_base64(s) == DecodeIntoZeroed(s, ED25519_PUBLIC_KEY_LEN)

\* Signature::to_base64, PublicKey::to_base64
to_base64(bytes) == B64Encode(bytes)

(***************************************************************************)
(* Ed25519, idealised: a key pair is a number; signing is a deterministic  *)
(* function of the key pair and the message bytes, and a signature         *)
(* verifies exactly when it is the one signing produces.                   *)
(***************************************************************************)
KeyPairs == {1, 2}

HashMod == 15485863

\* the weight of position i of a message
HashWeight(i) == ((i * i * 7919 + i * 104729 + 1) % 8191) + 1

RECURSIVE HashRange(_, _, _)
\* the digest of msg[lo..hi]
HashRange(msg, lo, hi) ==
    IF lo > hi THEN 0
    ELSE IF lo = hi THEN ((msg[lo] + 1) * HashWeight(lo)) % HashMod
    ELSE LET mid == (lo + hi) \div 2
         IN  (HashRange(msg, lo, mid) + HashRange(msg, mid + 1, hi)) % HashMod

\* the digest of a message: it depends on every byte and on the length
Hash(msg) == (HashRange(msg, 1, Len(msg)) + 7 * Len(msg)) % HashMod

\* KeyPair::public_key: the 32 bytes of the public half
public_key(kp) ==
    [i \in 1..ED25519_PUBLIC_KEY_LEN |->
        IF i = 1 THEN kp ELSE ((7 * i + kp) % 251) + 1]

\* KeyPair::sign: the 64 bytes R || S of the signature.  S is a scalar below
\* 2^253 in little-endian order, so its top byte, the last of the 64, is
\* small and is zero for some messages.
sign(kp, msg) ==
    LET h == Hash(msg) IN
    [i \in 1..ED25519_SIGNATURE_LEN |->
        IF i = 1 THEN kp
        ELSE IF i = 2 THEN h % 256
        ELSE IF i = 3 THEN (h \div 256) % 256
        ELSE IF i = 4 THEN (h \div 65536) % 256
        ELSE IF i = ED25519_SIGNATURE_LEN THEN h % 4
        ELSE ((5 * i + 3) % 251) + 1]

\* PublicKey::verify
PublicKey_verify(pk, msg, sig) ==
    \E kp \in KeyPairs : public_key(kp) = pk /\ sign(kp, msg) = sig

(***************************************************************************)
(* Signed<T> (lib.rs) and its payloads (text.rs, profile.rs).  An envelope *)
(* is a record [key, server, timestamp, data, signature]; key, signature   *)
(* and targetKey are base64 strings, the other strings are TLA+ strings.   *)
(* data.type names the payload struct.                                     *)
(***************************************************************************)
\* the UTF-8 bytes of the strings of the model
StringBytes(s) ==
    CASE
         s = "key" -> << 107, 101, 121 >>
      [] s = "server" -> << 115, 101, 114, 118, 101, 114 >>
      [] s = "timestamp" -> << 116, 105, 109, 101, 115, 116, 97, 109, 112 >>
      [] s = "channel" -> << 99, 104, 97, 110, 110, 101, 108 >>
      [] s = "content" -> << 99, 111, 110, 116, 101, 110, 116 >>
      [] s = "metadata" -> << 109, 101, 116, 97, 100, 97, 116, 97 >>
      [] s = "name" -> << 110, 97, 109, 101 >>
      [] s = "targetKey" -> << 116, 97, 114, 103, 101, 116, 75, 101, 121 >>
      [] s = "signature" -> << 115, 105, 103, 110, 97, 116, 117, 114, 101 >>
      [] s = "s1" -> << 115, 49 >>
      [] s = "s2" -> << 115, 50 >>
      [] s = "general" -> << 103, 101, 110, 101, 114, 97, 108 >>
      [] s = "random" -> << 114, 97, 110, 100, 111, 109 >>
      [] s = "hello" -> << 104, 101, 108, 108, 111 >>
      [] s = "evil" -> << 101, 118, 105, 108 >>
      [] s = "Alice" -> << 65, 108, 105, 99, 101 >>
      [] s = "Bob" -> << 66, 111, 98 >>
      [] s = "Carol" -> << 67, 97, 114, 111, 108 >>
      [] s = "a" -> << 97 >>
      [] s = "b" -> << 98 >>
      [] s = "1" -> << 49 >>
      [] s = "2" -> << 50 >>

RECURSIVE Digits(_)
\* the decimal digits of a u64, as serde_json writes it
Digits(n) == IF n < 10 THEN << 48 + n >> ELSE Digits(n \div 10) \o << 48 + (n % 10) >>

\* "...": a JSON string
JsonString(bytes) == << 34 >> \o bytes \o << 34 >>

\* "name":value
JsonField(name, value) == JsonString(StringBytes(name)) \o << 58 >> \o value

RECURSIVE JsonJoin(_)
\* the fields separated by commas
JsonJoin(fields) ==
    IF fields = << >> THEN << >>
    ELSE IF Len(fields) = 1 THEN fields[1]
    ELSE fields[1] \o << 44 >> \o JsonJoin(Tail(fields))

\* {...}: a JSON object of the fields, in the order given
JsonObject(fields) == << 123 >> \o JsonJoin(fields) \o << 125 >>

\* Option<Map<String, Value>>: None, or the entries in the map's iteration order
NoMeta == [some |-> FALSE, entries |-> << >>]
SomeMeta(entries) == [some |-> TRUE, entries |-> entries]

\* the order of String keys: byte by byte, a proper prefix first
RECURSIVE BytesLess(_, _)
BytesLess(x, y) ==
    IF y = << >> THEN FALSE
    ELSE IF x = << >> THEN TRUE
    ELSE IF x[1] # y[1] THEN x[1] < y[1]
    ELSE BytesLess(Tail(x), Tail(y))

KeyLess(j, k) == BytesLess(StringBytes(j), StringBytes(k))

\* a map that keeps its entries in the order of their insertion
Map_insert_appending(entries, k, v) ==
    IF \E i \in 1..Len(entries) : entries[i][1] = k
    THEN [i \in 1..Len(entries) |->
             IF entries[i][1] = k THEN << k, v >> ELSE entries[i]]
    ELSE Append(entries, << k, v >>)

\* Map::insert of serde_json's Map, a BTreeMap<String, Value>: the entry of
\* an equal key is replaced, a new key takes its place in the order of keys
Map_insert(entries, k, v) ==
    LET before == SelectSeq(entries, LAMBDA en : KeyLess(en[1], k))
        after == SelectSeq(entries, LAMBDA en : KeyLess(k, en[1]))
    IN before \o << << k, v >> >> \o after

\* the map after the insertions of the sequence, first to last
RECURSIVE MapOf(_)
MapOf(inserts) ==
    IF inserts = << >> THEN << >>
    ELSE LET last == inserts[Len(inserts)]
         IN Map_insert(MapOf(SubSeq(inserts, 1, Len(inserts) - 1)), last[1], last[2])

\* the map as a JSON object, entry by entry in iteration order
MetaJson(m) ==
    JsonObject([i \in 1..Len(m.entries) |->
        JsonField(m.entries[i][1], JsonString(StringBytes(m.entries[i][2])))])

\* #[serde(skip_serializing_if = "Option::is_none")] metadata
MetaFields(m) ==
    IF m.some THEN << JsonField("metadata", MetaJson(m)) >> ELSE << >>

Post(channel, content, metadata) ==
    [type |-> "Post", channel |-> channel, content |-> content, metadata |-> metadata]

PostRequest(channel, metadata) ==
    [type |-> "PostRequest", channel |-> channel, metadata |-> metadata]

Profile(name, metadata) ==
    [type |-> "Profile", name |-> name, metadata |-> metadata]

ProfileRequest(target_key) ==
    [type |-> "ProfileRequest", target_key |-> target_key]

\* the serialized fields of the payload, in declaration order
DataFields(d) ==
    CASE d.type = "Post" ->
            << JsonField("channel", JsonString(StringBytes(d.channel))),
               JsonField("content", JsonString(StringBytes(d.content))) >>
            \o MetaFields(d.metadata)
      [] d.type = "PostRequest" ->
            << JsonField("channel", JsonString(StringBytes(d.channel))) >>
            \o MetaFields(d.metadata)
      [] d.type = "Profile" ->
            << JsonField("name", JsonString(StringBytes(d.name))) >>
            \o MetaFields(d.metadata)
      [] d.type = "ProfileRequest" ->
            << JsonField("targetKey", JsonString(d.target_key)) >>

\* serde_json::to_string(&signed): key, server, timestamp, the payload
\* flattened, and the signature unless it is empty
Serialize(e) ==
    JsonObject(
        << JsonField("key", JsonString(e.key)),
           JsonField("server", JsonString(StringBytes(e.server))),
           JsonField("timestamp", Digits(e.timestamp)) >>
        \o DataFields(e.data)
        \o (IF e.signature = << >> THEN << >>
            ELSE << JsonField("signature", JsonString(e.signature)) >>))

Signed(key, server, timestamp, data, signature) ==
    [key |-> key, server |-> server, timestamp |-> timestamp, data |-> data,
     signature |-> signature]

\* Signed::new as it would be if the timestamp were set after signing
Signed_new_late_timestamp(key_pair, server, timestamp, data) ==
    LET signed == Signed(to_base64(public_key(key_pair)), server, 0, data, << >>)
        signature == sign(key_pair, Serialize(signed))
    IN  [signed EXCEPT !.timestamp = timestamp, !.signature = to_base64(signature)]

\* Signed::new (it returns Some in every case: signing and serializing do
\* not fail)
Signed_new(key_pair, server, timestamp, data) ==
    LET signed == Signed(to_base64(public_key(key_pair)), server, timestamp, data, << >>)
        serialized == Serialize(signed)
        signature == sign(key_pair, serialized)
    IN  [signed EXCEPT !.signature = to_base64(signature)]

\* Signed::verify: "true", "false", or "panic" when a decode overruns its
\* buffer
Signed_verify(e) ==
    LET pk == PublicKey_from_base64(e.key)
        sig == Signature_from_base64(e.signature)
    IN  IF pk.kind = "panic" THEN "panic"
        ELSE IF pk.kind = "none" THEN "false"
        ELSE IF sig.kind = "panic" THEN "panic"
        ELSE IF sig.kind = "none" THEN "false"
        ELSE IF PublicKey_verify(pk.bytes, Serialize([e EXCEPT !.signature = << >>]),
                                 sig.bytes)
             THEN "true" ELSE "false"

(***************************************************************************)
(* The values the model draws its inputs from.                             *)
(***************************************************************************)
Servers == {"s1", "s2"}
Times == 0..MaxTime
Meta1 == SomeMeta(<< <<"a", "1">> >>)
\* the key strings of the key pairs, evaluated once
KeyStrings == [kp \in KeyPairs |-> to_base64(public_key(kp))]
KeyString(kp) == KeyStrings[kp]

Payloads ==
    {Post("general", c, m) : c \in {"hello", "evil"}, m \in {NoMeta, Meta1}}
    \cup {PostRequest(ch, NoMeta) : ch \in {"general", "random"}}
    \cup {Profile(n, NoMeta) : n \in {"Alice", "Bob"}}
    \cup {ProfileRequest(KeyString(kp)) : kp \in KeyPairs}

\* every envelope Signed::new builds from the inputs of the model
NewEnvelopes ==
    {Signed_new(kp, s, t, d) : kp \in KeyPairs, s \in Servers, t \in Times, d \in Payloads}

NoEnvelope == Signed(<< >>, "s1", 0, PostRequest("general", NoMeta), << >>)

(***************************************************************************)
(* State.  The relay store: the tables posts, profiles and users of the    *)
(* database, the request being answered and its response.  The envelope    *)
(* under test: orig as Signed::new returned it, env as it is presented to  *)
(* verify, verdict what verify returned.  History of the store, kept for   *)
(* stating properties and read by no handler: accepted, the post envelopes *)
(* answered with success; lastq, per key pair the highest timestamp of a   *)
(* get_text answered with success; lastprof, per key pair the last profile *)
(* envelope answered with success.  unique_sig is the schema of the        *)
(* tables, which the repository does not hold: whether the column that     *)
(* identifies a row (the signature of a post, the key of a profile) is     *)
(* declared unique.                                                        *)
(***************************************************************************)
VARIABLES posts, profiles, users, unique_sig, req, resp,
          accepted, lastq, lastprof,
          orig, env, verdict

tables == << posts, profiles, users >>
history == << accepted, lastq, lastprof >>
store_vars == << posts, profiles, users, unique_sig, req, resp, accepted, lastq, lastprof >>
env_vars == << orig, env, verdict >>

(***************************************************************************)
(* State of the other parts of the program.  ins: the two orders in which  *)
(* the entries of a metadata map were inserted.  handlers: the requests    *)
(* the relay is answering at the same time, each with its position in its  *)
(* handler.  The client: front and back, the state of the frontend and the *)
(* backend task; cmdq and updq, the channels from the frontend to the      *)
(* backend and back; net, the answers of the relay to the client as the    *)
(* network delivers them; log, the history of the client kept for stating  *)
(* properties and read by no task.  Where the store runs alone, log holds  *)
(* an earlier answer to a query of posts, and where the backend's clock is *)
(* followed, net holds the clock and log the timestamps issued.            *)
(***************************************************************************)
VARIABLES ins, handlers, front, back, cmdq, updq, net, log

client_vars == << front, back, cmdq, updq, net, log >>
aux_vars == << ins, handlers, front, back, cmdq, updq, net, log >>
vars == << posts, profiles, users, unique_sig, req, resp, accepted, lastq, lastprof,
           orig, env, verdict, ins, handlers, front, back, cmdq, updq, net, log >>

\* the parts a specification does not run stay as they are
ClientIdle ==
    /\ front = << >>
    /\ back = << >>
    /\ cmdq = << >>
    /\ updq = << >>
    /\ net = << >>
    /\ log = << >>

AuxIdle ==
    /\ ins = << >>
    /\ handlers = << >>
    /\ ClientIdle

NoReq == [op |-> "none", env |-> NoEnvelope]
NoResp == [status |-> 0, code |-> "NONE", body |-> << >>]

StoreInit ==
    /\ posts = << >>
    /\ profiles = << >>
    /\ users = << >>
    /\ req = NoReq
    /\ resp = NoResp
    /\ accepted = {}
    /\ lastq = [kp \in KeyPairs |-> -1]
    /\ lastprof = [kp \in KeyPairs |-> NoEnvelope]

EnvIdle ==
    /\ orig = NoEnvelope
    /\ env = NoEnvelope
    /\ verdict = "none"

(***************************************************************************)
(* The envelope on its own: Signed::new builds it, the wire may change it, *)
(* Signed::verify judges it.                                               *)
(***************************************************************************)
\* the payload with one field set to another value
PayloadVariants(d) ==
    CASE d.type = "Post" ->
            {[d EXCEPT !.channel = "random"], [d EXCEPT !.content = "evil"],
             [d EXCEPT !.content = "hello"],
             [d EXCEPT !.metadata = Meta1], [d EXCEPT !.metadata = NoMeta]}
      [] d.type = "PostRequest" ->
            {[d EXCEPT !.channel = "random"], [d EXCEPT !.channel = "general"],
             [d EXCEPT !.metadata = Meta1]}
      [] d.type = "Profile" ->
            {[d EXCEPT !.name = "Alice"], [d EXCEPT !.name = "Bob"],
             [d EXCEPT !.metadata = Meta1]}
      [] d.type = "ProfileRequest" ->
            {[d EXCEPT !.target_key = KeyString(kp)] : kp \in KeyPairs}

\* the envelope with one field replaced by another well-formed value
FieldVariants(e) ==
    ( {[e EXCEPT !.key = KeyString(kp)] : kp \in KeyPairs}
      \cup {[e EXCEPT !.server = s] : s \in Servers}
      \cup {[e EXCEPT !.timestamp = t] : t \in Times}
      \cup {[e EXCEPT !.data = d] : d \in PayloadVariants(e.data)}
      \cup {[e EXCEPT !.signature = o.signature] :
                o \in {[e EXCEPT !.timestamp = t] : t \in Times}
                      \cup {Signed_new(kp, e.server, e.timestamp, e.data) : kp \in KeyPairs}} )
    \ {e}

\* other encodings of a base64 string: of the bytes without the last one, of
\* the bytes with a zero appended, without its last character, with a
\* character outside the alphabet, and the empty string
EncodingVariants(s) ==
    LET bytes == B64Decode(s).bytes IN
    { to_base64(SubSeq(bytes, 1, Len(bytes) - 1)),
      to_base64(bytes \o << 0 >>),
      SubSeq(s, 1, Len(s) - 1),
      [s EXCEPT ![2] = BadChar],
      << >> } \ {s}

EnvInit ==
    /\ orig \in NewEnvelopes
    /\ env = orig
    /\ verdict = "none"
    /\ StoreInit
    /\ unique_sig = FALSE
    /\ AuxIdle

\* a field of the envelope is changed to a different value on the wire
TamperField ==
    /\ env = orig
    /\ verdict = "none"
    /\ \E e \in FieldVariants(orig) : env' = e
    /\ UNCHANGED << orig, verdict >>
    /\ UNCHANGED << store_vars, aux_vars >>

\* the key or the signature is replaced by another encoding
TamperEncoding ==
    /\ env = orig
    /\ verdict = "none"
    /\ \/ \E s \in EncodingVariants(orig.signature) : env' = [orig EXCEPT !.signature = s]
       \/ \E k \in EncodingVariants(orig.key) : env' = [orig EXCEPT !.key = k]
    /\ UNCHANGED << orig, verdict >>
    /\ UNCHANGED << store_vars, aux_vars >>

\* the receiver calls verify()
Verify ==
    /\ verdict = "none"
    /\ verdict' = Signed_verify(env)
    /\ UNCHANGED << orig, env >>
    /\ UNCHANGED << store_vars, aux_vars >>

EnvNext == TamperField \/ TamperEncoding \/ Verify

SpecEnvelope == EnvInit /\ [][EnvNext]_vars

\* C8: an envelope as Signed::new returned it verifies.
C8_RoundTrip == (env = orig /\ verdict # "none") => verdict = "true"

C8_Witness == env = orig /\ orig.data.type = "Post" /\ orig.data.metadata.some /\ verdict = "true"

\* C9: an envelope whose signature, key or signed content was changed to a
\* different value is not accepted by verify().
C9_TamperDetected == (env # orig /\ verdict # "none") => verdict # "true"

\* C10: an envelope whose key or signature is malformed base64, or decodes
\* to fewer bytes than a full key or signature, has verify() = false.
Undersized(s, n) == ~B64Decode(s).ok \/ Len(B64Decode(s).bytes) < n

C10_FailClosed ==
    ( /\ verdict # "none"
      /\ \/ Undersized(env.signature, ED25519_SIGNATURE_LEN)
         \/ Undersized(env.key, ED25519_PUBLIC_KEY_LEN) )
    => verdict = "false"

(***************************************************************************)
(* The relay store (relay-server/src/text.rs, profile.rs).  Key pair 1 is  *)
(* the participant that posts and publishes a profile, key pair 2 the one  *)
(* that polls and looks profiles up.                                       *)
(***************************************************************************)
(* Canonical encoding.  An envelope is built and signed from a payload     *)
(* whose metadata map was filled in one order of insertion, and built      *)
(* again, with that signature, from a map filled in another order.         *)
(***************************************************************************)
MapEntries == {<< "a", "1" >>, << "b", "2" >>, << "a", "2" >>}

\* the sequences of insertions the model tries: up to two, of distinct keys
InsertOrders ==
    {<< >>}
    \cup {<< x >> : x \in MapEntries}
    \cup {p \in {<< x, y >> : x \in MapEntries, y \in MapEntries} : p[1][1] # p[2][1]}

\* the payloads that carry a metadata map
WithMetadata(i) ==
    {Post("general", "hello", SomeMeta(MapOf(i))),
     PostRequest("general", SomeMeta(MapOf(i))),
     Profile("Alice", SomeMeta(MapOf(i)))}

\* the same payload with its map filled by other insertions
Refill(d, i) == [d EXCEPT !.metadata = SomeMeta(MapOf(i))]

CanonInit ==
    /\ \E i \in InsertOrders :
          /\ ins = << i, i >>
          /\ \E kp \in KeyPairs, s \in Servers, t \in Times, d \in WithMetadata(i) :
                orig = Signed_new(kp, s, t, d)
    /\ env = orig
    /\ verdict = "none"
    /\ StoreInit
    /\ unique_sig = FALSE
    /\ handlers = << >>
    /\ ClientIdle

\* the envelope is built again from a map filled by other insertions
Rebuild ==
    /\ env = orig
    /\ verdict = "none"
    /\ ins[2] = ins[1]
    /\ \E i \in InsertOrders \ {ins[1]} :
          /\ ins' = << ins[1], i >>
          /\ env' = [orig EXCEPT !.data = Refill(orig.data, i)]
    /\ UNCHANGED << orig, verdict, handlers, client_vars >>
    /\ UNCHANGED store_vars

CanonNext == Rebuild \/ Verify

SpecCanon == CanonInit /\ [][CanonNext]_vars

\* the two sequences of insertions describe the same map
SameEntries ==
    {ins[1][i] : i \in 1..Len(ins[1])} = {ins[2][i] : i \in 1..Len(ins[2])}

PostInputs ==
    {Signed_new(1, "s1", 1, Post("general", "hello", m)) : m \in {NoMeta, Meta1}}

QueryInputs ==
    {Signed_new(2, "s1", t, PostRequest("general", NoMeta)) : t \in 1..MaxTime}

ProfileInputs ==
    {Signed_new(1, "s1", t, Profile(n, NoMeta)) : n \in {"Alice", "Bob"}, t \in 1..MaxTime}

ProfileQueryInputs ==
    {Signed_new(2, "s1", 1, ProfileRequest(KeyString(kp))) : kp \in KeyPairs}

\* the envelope with the signature the other key pair makes over its content
Forged(e) ==
    LET signer == CHOOSE kp \in KeyPairs : KeyString(kp) # e.key
    IN  [e EXCEPT !.signature = Signed_new(signer, e.server, e.timestamp, e.data).signature]

\* the envelopes of S and, for those of time 1, their forgeries
WithForged(S) == S \cup {Forged(e) : e \in {x \in S : x.timestamp = 1}}

\* profiles of both key pairs: those of the first at time 1 and one of the second
BothProfileInputs ==
    {e \in ProfileInputs : e.timestamp = 1}
    \cup {Signed_new(2, "s1", 1, Profile("Alice", NoMeta))}

WireEnvelopes ==
    WithForged(PostInputs) \cup WithForged(QueryInputs)
    \cup WithForged(ProfileInputs) \cup WithForged(ProfileQueryInputs)
    \cup WithForged(BothProfileInputs)

\* Signed::verify of the envelopes of the wire, evaluated once
VerifyTable == [e \in WireEnvelopes |-> Signed_verify(e)]

\* a handler that does not look at the result of verify()
verify_unchecked(e) == "true"

\* req.verify()
verify(e) == IF e \in WireEnvelopes THEN VerifyTable[e] ELSE Signed_verify(e)

Range(f) == {f[i] : i \in DOMAIN f}

\* the response of a handler: (StatusCode, Json(body))
ErrorResponse(status) == [status |-> 400, code |-> status, body |-> << >>]
OkResponse(body) == [status |-> 200, code |-> "OK", body |-> body]
\* the handler panicked (an unwrap of an Err, a decode that overran its
\* buffer): the connection ends without a response
Panicked == [status |-> 0, code |-> "PANIC", body |-> << >>]

\* the row post_text inserts: key, server, timestamp, channel, content, signature
PostRow(e) ==
    [key |-> e.key, server |-> e.server, timestamp |-> e.timestamp,
     channel |-> e.data.channel, content |-> e.data.content, signature |-> e.signature]

\* a row of posts decoded as Signed<Post>: the table has no metadata column
PostOfRow(r) ==
    Signed(r.key, r.server, r.timestamp, Post(r.channel, r.content, NoMeta), r.signature)

\* the row post_profile inserts: key, server, timestamp, name, signature
ProfileRow(e) ==
    [key |-> e.key, server |-> e.server, timestamp |-> e.timestamp,
     name |-> e.data.name, signature |-> e.signature]

\* a row of profiles decoded as Signed<Profile>
ProfileOfRow(r) ==
    Signed(r.key, r.server, r.timestamp, Profile(r.name, NoMeta), r.signature)

\* query_decode of one value or one struct: Ok with the row when exactly one
\* row matches, Err otherwise
DecodeOne(rows) ==
    IF Len(rows) = 1 THEN [ok |-> TRUE, row |-> rows[1]]
    ELSE [ok |-> FALSE, row |-> << >>]

\* "select lastrequest from users where key='?';": the question mark is
\* inside a string literal, so the rows are those whose key is the text "?"
SelectLastRequest(key) ==
    DecodeOne(SelectSeq(users, LAMBDA r : r.key = << BadChar >>))

\* the profile lookup without its where clause
SelectProfileAnyKey(key) == DecodeOne(profiles)

\* "select * from profiles where key=?;" and "select name from profiles where key=?1;"
SelectProfile(key) ==
    DecodeOne(SelectSeq(profiles, LAMBDA r : r.key = key))

\* a select that returns the newest row only
SelectNewestPost ==
    IF posts = << >> THEN << >> ELSE << PostOfRow(posts[Len(posts)]) >>

\* "select * from posts;"
SelectPosts == [i \in 1..Len(posts) |-> PostOfRow(posts[i])]

\* an update that keeps the stored name
UpdateProfileNameKept(name, key) == profiles

\* the update without its where clause
UpdateProfileNameEveryKey(name, key) ==
    [i \in 1..Len(profiles) |-> [profiles[i] EXCEPT !.name = name]]

\* "update profiles set name=?1 where key=?2;"
UpdateProfileName(name, key) ==
    [i \in 1..Len(profiles) |->
        IF profiles[i].key = key THEN [profiles[i] EXCEPT !.name = name] ELSE profiles[i]]

\* the key pair whose public key the string encodes, 0 when there is none
KeyPairOf(key) ==
    IF \E kp \in KeyPairs : KeyString(kp) = key
    THEN CHOOSE kp \in KeyPairs : KeyString(kp) = key
    ELSE 0

KeepHistory == UNCHANGED << accepted, lastq, lastprof >>

\* text.rs get_text
get_text(e) ==
    LET v == verify(e)
        last_req == SelectLastRequest(e.key)
    IN  /\ req' = [op |-> "get_text", env |-> e]
        /\ UNCHANGED << posts, profiles, users, unique_sig >>
        /\ UNCHANGED << accepted, lastprof >>
        /\ IF v = "panic" THEN resp' = Panicked /\ UNCHANGED lastq
           ELSE IF v # "true" THEN
                resp' = ErrorResponse("FAILED_VERIFY_SIGNATURE") /\ UNCHANGED lastq
           ELSE IF last_req.ok /\ e.timestamp <= last_req.row.lastrequest THEN
                resp' = ErrorResponse("IMPOSSIBLE_TIMESTAMP") /\ UNCHANGED lastq
           ELSE /\ resp' = OkResponse(SelectPosts)
                /\ lastq' = [kp \in KeyPairs |->
                                IF kp = KeyPairOf(e.key) /\ e.timestamp > lastq[kp]
                                THEN e.timestamp ELSE lastq[kp]]

\* text.rs post_text
post_text(e) ==
    LET v == verify(e)
        clash == unique_sig /\ \E i \in 1..Len(posts) : posts[i].signature = e.signature
    IN  /\ req' = [op |-> "post_text", env |-> e]
        /\ UNCHANGED << profiles, users, unique_sig >>
        /\ UNCHANGED << lastq, lastprof >>
        /\ IF v = "panic" THEN resp' = Panicked /\ UNCHANGED << posts, accepted >>
           ELSE IF v # "true" THEN
                resp' = ErrorResponse("FAILED_VERIFY_SIGNATURE")
                /\ UNCHANGED << posts, accepted >>
           ELSE IF clash THEN
                \* db.exec(insert) is Err and is unwrapped
                resp' = Panicked /\ UNCHANGED << posts, accepted >>
           ELSE /\ Len(posts) < MaxPosts
                /\ posts' = Append(posts, PostRow(e))
                /\ resp' = OkResponse(<< >>)
                /\ accepted' = accepted \cup {e}

\* profile.rs get_profile
get_profile(e) ==
    LET v == verify(e)
        profile == SelectProfile(e.data.target_key)
    IN  /\ req' = [op |-> "get_profile", env |-> e]
        /\ UNCHANGED << posts, profiles, users, unique_sig >>
        /\ KeepHistory
        /\ IF v = "panic" THEN resp' = Panicked
           ELSE IF v # "true" THEN resp' = ErrorResponse("FAILED_VERIFY_SIGNATURE")
           ELSE IF ~profile.ok THEN resp' = ErrorResponse("PROFILE_NOT_FOUND")
           ELSE resp' = OkResponse(<< ProfileOfRow(profile.row) >>)

\* profile.rs post_profile
post_profile(e) ==
    LET v == verify(e)
        found == SelectProfile(e.key)
    IN  /\ req' = [op |-> "post_profile", env |-> e]
        /\ UNCHANGED << posts, users, unique_sig >>
        /\ UNCHANGED << accepted, lastq >>
        /\ IF v = "panic" THEN resp' = Panicked /\ UNCHANGED << profiles, lastprof >>
           ELSE IF v # "true" THEN
                resp' = ErrorResponse("FAILED_VERIFY_SIGNATURE")
                /\ UNCHANGED << profiles, lastprof >>
           ELSE /\ IF found.ok
                   THEN profiles' = UpdateProfileName(e.data.name, e.key)
                   ELSE profiles' = Append(profiles, ProfileRow(e))
                /\ resp' = OkResponse(<< >>)
                /\ lastprof' = [kp \in KeyPairs |->
                                   IF kp = KeyPairOf(e.key) THEN e ELSE lastprof[kp]]

Init ==
    /\ StoreInit
    /\ unique_sig \in BOOLEAN
    /\ EnvIdle
    /\ AuxIdle

PostText == \E e \in WithForged(PostInputs) : post_text(e) /\ UNCHANGED << env_vars, aux_vars >>
GetText == \E e \in WithForged(QueryInputs) : get_text(e) /\ UNCHANGED << env_vars, aux_vars >>
PostProfile == \E e \in WithForged(ProfileInputs) : post_profile(e) /\ UNCHANGED << env_vars, aux_vars >>
GetProfile == \E e \in WithForged(ProfileQueryInputs) : get_profile(e) /\ UNCHANGED << env_vars, aux_vars >>

Next == PostText \/ GetText \/ PostProfile \/ GetProfile

Spec == Init /\ [][Next]_vars

(***************************************************************************)
(* Properties of the store.                                                *)
(***************************************************************************)
\* what Signed::verify says of a wire envelope
Verified(e) == VerifyTable[e] = "true"

\* the stored profile row of a key pair
StoredProfile(kp) == SelectProfile(KeyString(kp))

\* C1: submitting an accepted Post envelope again succeeds and leaves one
\* copy: no two rows of the post log carry the same signature, and a
\* post_text of an envelope that was accepted is answered with success.
C1_Idempotent ==
    /\ \A i, j \in 1..Len(posts) : posts[i].signature = posts[j].signature => i = j
    /\ (req.op = "post_text" /\ req.env \in accepted) => resp.status = 200

\* C2: a validly signed get_text whose timestamp is not above that of an
\* earlier accepted get_text of the same key is answered IMPOSSIBLE_TIMESTAMP,
\* and one whose timestamp is above every earlier accepted one succeeds.
C2_AntiReplay ==
    [][ (req'.op = "get_text" /\ Verified(req'.env)) =>
            IF req'.env.timestamp <= lastq[KeyPairOf(req'.env.key)]
            THEN resp'.code = "IMPOSSIBLE_TIMESTAMP" /\ resp'.status = 400
            ELSE resp'.status = 200 ]_vars

\* C3: every handler answers an envelope that does not verify with
\* FAILED_VERIFY_SIGNATURE and changes none of the three tables.
C3_SignatureFirst ==
    [][ (req'.op # "none" /\ VerifyTable[req'.env] = "false") =>
            /\ resp'.code = "FAILED_VERIFY_SIGNATURE"
            /\ resp'.status = 400
            /\ UNCHANGED << posts, profiles, users >> ]_vars

\* a forged get_text that also replays a timestamp was answered
C3_Witness ==
    /\ req.op = "get_text"
    /\ resp.code = "FAILED_VERIFY_SIGNATURE"
    /\ req.env.timestamp <= lastq[KeyPairOf(req.env.key)]
    /\ posts # << >>

\* C4: the stored profile name of a key is the name of the last accepted
\* post_profile of that key, whatever the timestamps.
C4_LastWriteWins ==
    \A kp \in KeyPairs :
        lastprof[kp] # NoEnvelope =>
            /\ StoredProfile(kp).ok
            /\ StoredProfile(kp).row.name = lastprof[kp].data.name

\* "Alice" at time 2 was stored first, then "Bob" at time 1 was accepted
C4_Witness ==
    /\ StoredProfile(1).ok
    /\ StoredProfile(1).row.signature
         = Signed_new(1, "s1", 2, Profile("Alice", NoMeta)).signature
    /\ lastprof[1] = Signed_new(1, "s1", 1, Profile("Bob", NoMeta))
    /\ StoredProfile(1).row.name = "Bob"

\* C5: a successful get_profile returns exactly the last accepted profile
\* envelope of the target key, which verifies.
C5_ReturnsLastAccepted ==
    (req.op = "get_profile" /\ resp.status = 200) =>
        /\ resp.body = << lastprof[KeyPairOf(req.env.data.target_key)] >>
        /\ Signed_verify(resp.body[1]) = "true"

\* C6: a validly signed get_profile for a key with no accepted profile is
\* answered PROFILE_NOT_FOUND with a client-error status and changes no table.
C6_ProfileNotFound ==
    [][ ( /\ req'.op = "get_profile"
          /\ Verified(req'.env)
          /\ lastprof[KeyPairOf(req'.env.data.target_key)] = NoEnvelope ) =>
            /\ resp'.code = "PROFILE_NOT_FOUND"
            /\ resp'.status = 400
            /\ UNCHANGED << posts, profiles, users >> ]_vars

\* the profile of key pair 2 was asked for while key pair 1 has one
C6_Witness ==
    /\ req.op = "get_profile"
    /\ resp.code = "PROFILE_NOT_FOUND"
    /\ req.env.data.target_key = KeyString(2)
    /\ StoredProfile(1).ok

\* C7: a successful get_text returns every accepted post envelope as it was
\* accepted, and nothing that was not accepted.
C7_DeliveredUnchanged ==
    (req.op = "get_text" /\ resp.status = 200) =>
        /\ \A e \in accepted : e \in Range(resp.body)
        /\ \A e \in Range(resp.body) : e \in accepted

\* C12: once a get_text of a key was answered with success, the users table
\* holds a row of that key whose lastrequest is the highest timestamp of the
\* get_text requests of the key answered with success.
C12_LedgerMaintained ==
    \A kp \in KeyPairs :
        lastq[kp] >= 0 =>
            \E i \in 1..Len(users) :
                /\ users[i].key = KeyString(kp)
                /\ users[i].lastrequest = lastq[kp]

(***************************************************************************)
(* The relay answering two get_text requests at the same time.  A handler  *)
(* runs from one .await to the next without giving way: up to the lookup   *)
(* in users, then up to the select on posts, then to its response.         *)
(***************************************************************************)
Handlers == {1, 2}

NoLookup == [ok |-> FALSE, row |-> << >>]
IdleHandler ==
    [pc |-> "idle", env |-> NoEnvelope, last_req |-> NoLookup, resp |-> NoResp,
     overlapped |-> FALSE]

InFlight(h) == handlers[h].pc \in {"lookup", "select", "find", "write"}

ConcInit ==
    /\ StoreInit
    /\ unique_sig = FALSE
    /\ EnvIdle
    /\ ins = << >>
    /\ ClientIdle
    /\ handlers = [h \in Handlers |-> IdleHandler]

\* axum hands a request to get_text
get_text_receive(h) ==
    /\ ~InFlight(h)
    /\ \E e \in WithForged(QueryInputs) :
          handlers' = [g \in Handlers |->
              IF g = h
              THEN [IdleHandler EXCEPT !.pc = "lookup", !.env = e,
                                       !.overlapped = \E o \in Handlers \ {h} : InFlight(o)]
              ELSE IF InFlight(g) THEN [handlers[g] EXCEPT !.overlapped = TRUE]
              ELSE handlers[g]]
    /\ UNCHANGED << store_vars, env_vars, ins, client_vars >>

\* get_text up to the end of its first query: verify, then the lookup
get_text_lookup(h) ==
    LET e == handlers[h].env
        v == verify(e)
    IN  /\ handlers[h].pc = "lookup"
        /\ handlers' = [handlers EXCEPT ![h] =
              IF v = "panic" THEN [@ EXCEPT !.pc = "done", !.resp = Panicked]
              ELSE IF v # "true"
              THEN [@ EXCEPT !.pc = "done",
                             !.resp = ErrorResponse("FAILED_VERIFY_SIGNATURE")]
              ELSE [@ EXCEPT !.pc = "select", !.last_req = SelectLastRequest(e.key)]]
        /\ UNCHANGED << store_vars, env_vars, ins, client_vars >>

\* get_text from the comparison of the timestamp to its response
get_text_select(h) ==
    LET e == handlers[h].env
        last_req == handlers[h].last_req
    IN  /\ handlers[h].pc = "select"
        /\ handlers' = [handlers EXCEPT ![h] =
              IF last_req.ok /\ e.timestamp <= last_req.row.lastrequest
              THEN [@ EXCEPT !.pc = "done",
                             !.resp = ErrorResponse("IMPOSSIBLE_TIMESTAMP")]
              ELSE [@ EXCEPT !.pc = "done", !.resp = OkResponse(SelectPosts)]]
        /\ UNCHANGED << store_vars, env_vars, ins, client_vars >>

Receive == \E h \in Handlers : get_text_receive(h)
Lookup == \E h \in Handlers : get_text_lookup(h)
Select == \E h \in Handlers : get_text_select(h)

ConcNext == Receive \/ Lookup \/ Select \/ PostText

SpecConcurrent == ConcInit /\ [][ConcNext]_vars

\* C13: of two validly signed get_text requests of the same key and the same
\* timestamp that were being handled at the same time, at most one is
\* answered with success.
C13_AtomicReplayCheck ==
    \A g, h \in Handlers :
        (/\ g # h
         /\ handlers[g].pc = "done" /\ handlers[h].pc = "done"
         /\ handlers[g].overlapped /\ handlers[h].overlapped
         /\ Verified(handlers[g].env) /\ Verified(handlers[h].env)
         /\ handlers[g].env.key = handlers[h].env.key
         /\ handlers[g].env.timestamp = handlers[h].env.timestamp)
        => ~(handlers[g].resp.status = 200 /\ handlers[h].resp.status = 200)

(***************************************************************************)
(* The relay answering two post_profile requests at the same time.  A      *)
(* handler runs up to the end of its select on profiles, then up to the    *)
(* end of its update or insert.                                            *)
(***************************************************************************)
ProfilesInit ==
    /\ StoreInit
    /\ unique_sig \in BOOLEAN
    /\ EnvIdle
    /\ ins = << >>
    /\ ClientIdle
    /\ handlers = [h \in Handlers |-> IdleHandler]

\* axum hands a request to post_profile
post_profile_receive(h) ==
    /\ ~InFlight(h)
    /\ \E e \in WithForged(BothProfileInputs) :
          handlers' = [g \in Handlers |->
              IF g = h
              THEN [IdleHandler EXCEPT !.pc = "find", !.env = e,
                                       !.overlapped = \E o \in Handlers \ {h} : InFlight(o)]
              ELSE IF InFlight(g) THEN [handlers[g] EXCEPT !.overlapped = TRUE]
              ELSE handlers[g]]
    /\ UNCHANGED << store_vars, env_vars, ins, client_vars >>

\* post_profile up to the end of its select: verify, then "select name"
post_profile_find(h) ==
    LET e == handlers[h].env
        v == verify(e)
    IN  /\ handlers[h].pc = "find"
        /\ handlers' = [handlers EXCEPT ![h] =
              IF v = "panic" THEN [@ EXCEPT !.pc = "done", !.resp = Panicked]
              ELSE IF v # "true"
              THEN [@ EXCEPT !.pc = "done",
                             !.resp = ErrorResponse("FAILED_VERIFY_SIGNATURE")]
              ELSE [@ EXCEPT !.pc = "write", !.last_req = SelectProfile(e.key)]]
        /\ UNCHANGED << store_vars, env_vars, ins, client_vars >>

\* post_profile from its update or insert to its response; an insert of a
\* key that has a row is Err where the key is declared unique, and the Err
\* is unwrapped
post_profile_write(h) ==
    LET e == handlers[h].env
        found == handlers[h].last_req
        clash == unique_sig /\ \E i \in 1..Len(profiles) : profiles[i].key = e.key
    IN  /\ handlers[h].pc = "write"
        /\ IF found.ok
           THEN /\ profiles' = UpdateProfileName(e.data.name, e.key)
                /\ handlers' = [handlers EXCEPT ![h] =
                      [@ EXCEPT !.pc = "done", !.resp = OkResponse(<< >>)]]
           ELSE IF clash
           THEN /\ UNCHANGED profiles
                /\ handlers' = [handlers EXCEPT ![h] =
                      [@ EXCEPT !.pc = "done", !.resp = Panicked]]
           ELSE /\ Len(profiles) < MaxProfiles
                /\ profiles' = Append(profiles, ProfileRow(e))
                /\ handlers' = [handlers EXCEPT ![h] =
                      [@ EXCEPT !.pc = "done", !.resp = OkResponse(<< >>)]]
        /\ UNCHANGED << posts, users, unique_sig, req, resp, history >>
        /\ UNCHANGED << env_vars, ins, client_vars >>

ReceiveProfile == \E h \in Handlers : post_profile_receive(h)
FindProfile == \E h \in Handlers : post_profile_find(h)
WriteProfile == \E h \in Handlers : post_profile_write(h)

ProfilesNext == ReceiveProfile \/ FindProfile \/ WriteProfile

SpecProfiles == ProfilesInit /\ [][ProfilesNext]_vars

\* C27: profiles holds at most one row of a key, also when two post_profile
\* requests of a key without a row are handled at the same time, and every
\* validly signed post_profile is answered with success.
C27_OneProfilePerKey ==
    /\ \A kp \in KeyPairs :
          Len(SelectSeq(profiles, LAMBDA r : r.key = KeyString(kp))) <= 1
    /\ \A h \in Handlers :
          (handlers[h].pc = "done" /\ Verified(handlers[h].env)) =>
              handlers[h].resp.status = 200

(***************************************************************************)
(* The client.  The frontend and the backend are two tasks that share the  *)
(* two channels and nothing else, so a step of one of them runs from one   *)
(* operation on a channel to the next; the calls of the backend to the     *)
(* relay are answered by the network with any of the answers below.        *)
(***************************************************************************)
\* the capacity of either channel, mpsc::channel(32), scaled down
QueueCap == 2
\* how many messages and profiles the user submits
MaxSubmits == 1

Message(sender, content) == [sender |-> sender, content |-> content]
ProfileDisplay(key, name, verified) == [key |-> key, name |-> name, verified |-> verified]

\* enum FrontendCommand
DisplayMessages(messages) == [cmd |-> "DisplayMessages", messages |-> messages]
RespondProfile(profile) == [cmd |-> "RespondProfile", profile |-> profile]

\* enum BackendCommand
Exit == [cmd |-> "Exit"]
SendMessage(content) == [cmd |-> "SendMessage", content |-> content]
SendProfile(name) == [cmd |-> "SendProfile", name |-> name]
RequestProfile(target) == [cmd |-> "RequestProfile", target |-> target]
NoCommand == [cmd |-> "none"]

\* the posts the relay holds, both of key pair 1
PostX1 == Signed_new(1, "s1", 1, Post("general", "hello", NoMeta))
PostX2 == Signed_new(1, "s1", 2, Post("general", "evil", NoMeta))

\* the bodies of the answers to get /text that carry posts
PostBatches == {<< PostX1 >>, << PostX1, PostX2 >>}

\* the profile of key pair 1 as it was signed, and as the relay holds it
\* after a later profile of the key changed the name alone
CarolProfile == Signed_new(1, "s1", 1, Profile("Carol", NoMeta))
RenamedProfile == [CarolProfile EXCEPT !.data.name = "Bob"]

\* the answers of the network to a call: the call failed, or it returned a
\* body, which is the JSON of an Error or of what was asked for
NetworkError == [kind |-> "network_error"]
ErrorBody(code) == [kind |-> "error", code |-> code]
PostsBody(b) == [kind |-> "posts", posts |-> b]
ProfileBody(e) == [kind |-> "profile", profile |-> e]

TextAnswers ==
    {NetworkError}
    \cup {ErrorBody(c) : c \in {"IMPOSSIBLE_TIMESTAMP", "FAILED_VERIFY_SIGNATURE"}}
    \cup {PostsBody(b) : b \in PostBatches}

ProfileAnswers(target) ==
    {NetworkError, ErrorBody("PROFILE_NOT_FOUND")}
    \cup {ProfileBody(e) : e \in {x \in {CarolProfile, RenamedProfile} : x.key = target}}

SubmitAnswers == {NetworkError, ErrorBody("FAILED_VERIFY_SIGNATURE"), [kind |-> "empty"]}

\* Signed::verify of the profiles the relay returns, evaluated once
ProfileVerified ==
    [e \in {CarolProfile, RenamedProfile} |-> Signed_verify(e) = "true"]

\* the keys a message can come from
SenderKeys == {KeyString(1)}

NoAnswer == [call |-> "none", kind |-> "none"]
NoResolution == [name |-> "", verified |-> FALSE, known |-> FALSE]

ClientInit ==
    /\ front = [pc |-> "recv", messages |-> << >>, users |-> {},
                unknown_users |-> << >>, redraw |-> FALSE, screen |-> << >>,
                out |-> NoCommand]
    /\ back = [pc |-> "recv", out |-> NoCommand]
    /\ cmdq = << >>
    /\ updq = << >>
    /\ net = NoAnswer
    /\ log = [exit_sent |-> FALSE, process |-> "running", submits |-> 0,
              observed |-> {}, fetches |-> << >>,
              handled |-> [k \in SenderKeys |-> NoResolution]]
    /\ StoreInit
    /\ unique_sig = FALSE
    /\ EnvIdle
    /\ ins = << >>
    /\ handlers = << >>

\* the other end of a channel is dropped when its task is over
FrontGone == front.pc \in {"exited", "panicked"}
BackGone == back.pc \in {"returned", "panicked"}

\* a channel that takes a message whatever it holds
HasRoom_always(q) == TRUE

\* Sender::send on a channel of QueueCap completes when there is room
HasRoom(q) == Len(q) < QueueCap

\* state.users: HashMap::contains_key, the entry of a key, HashMap::insert
contains_key(users_, key) == \E p \in users_ : p.key = key
entry(users_, key) == CHOOSE p \in users_ : p.key = key
insert(users_, profile) == {p \in users_ : p.key # profile.key} \cup {profile}

\* draw_ui: the lines of the message pane; the sender of every message
\* whose key is not in state.users is pushed to state.unknown_users
draw_ui(st) ==
    LET known(m) == contains_key(st.users, m.sender)
        line(m) == [name |-> IF known(m) THEN entry(st.users, m.sender).name ELSE "Guest",
                    content |-> m.content]
        unknown == SelectSeq(st.messages, LAMBDA m : ~known(m))
    IN  [st EXCEPT !.screen = [i \in 1..Len(st.messages) |-> line(st.messages[i])],
                   !.unknown_users = @ \o [i \in 1..Len(unknown) |-> unknown[i].sender]]

\* the end of an iteration of the frontend loop: "if redraw { draw }"
EndOfLoop(st) ==
    IF st.redraw
    THEN [draw_ui(st) EXCEPT !.pc = "recv", !.redraw = FALSE]
    ELSE [st EXCEPT !.pc = "recv"]

\* what the history keeps of a draw: the senders it found unknown
Drawn(st) ==
    IF st.redraw
    THEN [log EXCEPT !.fetches = << >>,
                     !.observed = {st.messages[i].sender : i \in
                                      {j \in 1..Len(st.messages) :
                                          ~contains_key(st.users, st.messages[j].sender)}}]
    ELSE log

\* a view that grows by the messages of every poll
set_messages_appending(old, messages) == old \o messages

\* "state.messages = messages;"
set_messages(old, messages) == messages

\* frontend: "while let Ok(cmd) = chan.1.try_recv()", one command
frontend_recv ==
    /\ front.pc = "recv"
    /\ updq # << >>
    /\ LET cmd == Head(updq)
       IN  front' = [front EXCEPT
               !.redraw = TRUE,
               !.messages = IF cmd.cmd = "DisplayMessages"
                             THEN set_messages(@, cmd.messages) ELSE @,
               !.users = IF cmd.cmd = "RespondProfile" THEN insert(@, cmd.profile) ELSE @]
    /\ updq' = Tail(updq)
    /\ UNCHANGED << back, cmdq, net, log >>

\* frontend: try_recv finds the channel empty and the loop goes on to the
\* profile requests
frontend_recv_done ==
    /\ front.pc = "recv"
    /\ updq = << >>
    /\ front' = [front EXCEPT
           !.pc = IF front.unknown_users = << >> THEN "input" ELSE "drain"]
    /\ UNCHANGED << back, cmdq, updq, net, log >>

\* frontend: "for target in state.unknown_users.drain(..)", one send
frontend_request ==
    /\ front.pc = "drain"
    /\ IF BackGone
       THEN /\ front' = [front EXCEPT !.pc = "panicked"]
            /\ UNCHANGED << cmdq, log >>
       ELSE /\ HasRoom(cmdq)
            /\ cmdq' = Append(cmdq, RequestProfile(Head(front.unknown_users)))
            /\ front' = [front EXCEPT
                   !.unknown_users = Tail(@),
                   !.pc = IF Tail(front.unknown_users) = << >> THEN "input" ELSE "drain"]
            /\ log' = [log EXCEPT !.fetches = Append(@, Head(front.unknown_users))]
    /\ UNCHANGED << back, updq, net >>

\* the events of the terminal: none within the millisecond, a key that
\* changes the view alone, q, Enter on a message, ":profile Alice" and
\* ":refresh-profiles"
\* frontend: "check for input" for the events that send nothing
frontend_input ==
    /\ front.pc = "input"
    /\ \E ev \in {"none", "key", "refresh"} :
          LET st == [front EXCEPT
                        !.redraw = IF ev = "none" THEN @ ELSE TRUE,
                        !.users = IF ev = "refresh" THEN {} ELSE @]
          IN  /\ front' = EndOfLoop(st)
              /\ log' = [Drawn(st) EXCEPT
                            !.handled = IF ev = "refresh"
                                        THEN [k \in SenderKeys |-> NoResolution] ELSE @]
    /\ UNCHANGED << back, cmdq, updq, net >>

\* frontend: a key that makes the frontend send a command
frontend_key ==
    /\ front.pc = "input"
    /\ \E ev \in {"q", "message", "profile"} :
          /\ ev # "q" => log.submits < MaxSubmits
          /\ front' = [front EXCEPT
                 !.pc = "send",
                 !.redraw = TRUE,
                 !.out = CASE ev = "q" -> Exit
                           [] ev = "message" -> SendMessage("hello")
                           [] ev = "profile" -> SendProfile("Alice")]
          /\ log' = [log EXCEPT !.submits = IF ev = "q" THEN @ ELSE @ + 1]
    /\ UNCHANGED << back, cmdq, updq, net >>

\* frontend: "chan.0.send(..).await.unwrap()" of the key handlers; after
\* Exit "break 'l", after the others the rest of the iteration
frontend_send ==
    /\ front.pc = "send"
    /\ IF BackGone
       THEN /\ front' = [front EXCEPT !.pc = "panicked"]
            /\ UNCHANGED << cmdq, log >>
       ELSE /\ HasRoom(cmdq)
            /\ cmdq' = Append(cmdq, front.out)
            /\ IF front.out = Exit
               THEN /\ front' = [front EXCEPT !.pc = "exited", !.out = NoCommand]
                    /\ log' = [log EXCEPT !.exit_sent = TRUE]
               ELSE /\ front' = EndOfLoop([front EXCEPT !.out = NoCommand])
                    /\ log' = Drawn(front)
    /\ UNCHANGED << back, updq, net >>

\* Vec<Signed<Post>> to Vec<Message>: the key and the content of each post
ToMessages(signed_posts) ==
    [i \in 1..Len(signed_posts) |->
        Message(signed_posts[i].key, signed_posts[i].data.content)]

\* backend, RequestProfile: the ProfileDisplay made of the body of the answer
Resolve(target, answer) ==
    IF answer.kind = "profile"
    THEN ProfileDisplay(answer.profile.key, answer.profile.data.name,
                        ProfileVerified[answer.profile])
    ELSE ProfileDisplay(target, "Guest", FALSE)

\* what the history keeps of a profile request: the entry the cache is to
\* hold for the target once the answer has been dealt with
Resolution(answer) ==
    IF answer.kind = "profile"
    THEN [name |-> answer.profile.data.name,
          verified |-> ProfileVerified[answer.profile], known |-> TRUE]
    ELSE [name |-> "Guest", verified |-> FALSE, known |-> TRUE]

\* backend: "while let Ok(cmd) = chan.1.try_recv()", one command
backend_recv ==
    /\ back.pc = "recv"
    /\ cmdq # << >>
    /\ cmdq' = Tail(cmdq)
    /\ UNCHANGED << front, updq >>
    /\ LET cmd == Head(cmdq)
       IN  CASE cmd.cmd = "Exit" ->
                  /\ back' = [back EXCEPT !.pc = "returned"]
                  /\ UNCHANGED << net, log >>
             [] cmd.cmd \in {"SendMessage", "SendProfile"} ->
                  \E answer \in SubmitAnswers :
                      /\ net' = [call |-> IF cmd.cmd = "SendMessage" THEN "post_text"
                                          ELSE "post_profile",
                                 kind |-> answer.kind]
                      /\ back' = [back EXCEPT
                             !.pc = IF answer = NetworkError THEN "panicked" ELSE "recv"]
                      /\ UNCHANGED log
             [] cmd.cmd = "RequestProfile" ->
                  \E answer \in ProfileAnswers(cmd.target) :
                      /\ net' = [call |-> "get_profile", kind |-> answer.kind]
                      /\ back' = IF answer = NetworkError
                                 THEN [back EXCEPT !.pc = "panicked"]
                                 ELSE [back EXCEPT !.pc = "respond",
                                          !.out = RespondProfile(Resolve(cmd.target, answer))]
                      /\ log' = [log EXCEPT !.handled[cmd.target] = Resolution(answer)]

\* backend: "chan.0.send(RespondProfile {..}).await.unwrap()"
backend_respond ==
    /\ back.pc = "respond"
    /\ IF FrontGone
       THEN back' = [back EXCEPT !.pc = "panicked"] /\ UNCHANGED updq
       ELSE /\ HasRoom(updq)
            /\ updq' = Append(updq, back.out)
            /\ back' = [back EXCEPT !.pc = "recv", !.out = NoCommand]
    /\ UNCHANGED << front, cmdq, net, log >>

\* backend: try_recv finds no command; "poll messages" up to the decoding
\* of the body
backend_poll_of(answers) ==
    /\ back.pc = "recv"
    /\ cmdq = << >>
    /\ \E answer \in answers :
          /\ net' = [call |-> "get_text", kind |-> answer.kind]
          /\ back' = IF answer.kind = "posts"
                     THEN [back EXCEPT !.pc = "display",
                              !.out = DisplayMessages(ToMessages(answer.posts))]
                     ELSE [back EXCEPT !.pc = "panicked"]
    /\ UNCHANGED << front, cmdq, updq, log >>

backend_poll == backend_poll_of(TextAnswers)

\* backend: "if chan.0.send(DisplayMessages {..}).await.is_err() { break }",
\* then the sleep of the tick
backend_display ==
    /\ back.pc = "display"
    /\ IF FrontGone
       THEN back' = [back EXCEPT !.pc = "returned"] /\ UNCHANGED updq
       ELSE /\ HasRoom(updq)
            /\ updq' = Append(updq, back.out)
            /\ back' = [back EXCEPT !.pc = "recv", !.out = NoCommand]
    /\ UNCHANGED << front, cmdq, net, log >>

\* main that leaves without "handle.await"
main_exit_unjoined ==
    /\ log.process = "running"
    /\ FrontGone
    /\ log' = [log EXCEPT !.process = "exited"]
    /\ UNCHANGED << front, back, cmdq, updq, net >>

\* main: "frontend(..).await; handle.await.unwrap();" and the end of the
\* process; a panic of the frontend is a panic of main
main_exit ==
    /\ log.process = "running"
    /\ \/ front.pc = "panicked"
       \/ front.pc = "exited" /\ BackGone
    /\ log' = [log EXCEPT !.process = "exited"]
    /\ UNCHANGED << front, back, cmdq, updq, net >>

other_vars == << store_vars, env_vars, ins, handlers >>

FrontendRecv == frontend_recv /\ UNCHANGED other_vars
FrontendRecvDone == frontend_recv_done /\ UNCHANGED other_vars
FrontendRequest == frontend_request /\ UNCHANGED other_vars
FrontendInput == frontend_input /\ UNCHANGED other_vars
FrontendKey == frontend_key /\ UNCHANGED other_vars
FrontendSend == frontend_send /\ UNCHANGED other_vars
BackendRecv == backend_recv /\ UNCHANGED other_vars
BackendRespond == backend_respond /\ UNCHANGED other_vars
BackendPoll == backend_poll /\ UNCHANGED other_vars
BackendDisplay == backend_display /\ UNCHANGED other_vars
MainExit == main_exit /\ UNCHANGED other_vars

Frontend ==
    \/ FrontendRecv \/ FrontendRecvDone \/ FrontendRequest
    \/ FrontendInput \/ FrontendKey \/ FrontendSend
Backend == BackendRecv \/ BackendRespond \/ BackendPoll \/ BackendDisplay

ClientNext == Frontend \/ Backend \/ MainExit

SpecClient == ClientInit /\ [][ClientNext]_vars

\* the tasks are scheduled fairly and the calls to the relay return
SpecClientFair ==
    /\ ClientInit
    /\ [][ClientNext]_vars
    /\ WF_vars(Frontend)
    /\ WF_vars(Backend)
    /\ WF_vars(MainExit)

\* C14: a poll that fails, by an error of the network or by a body that is
\* an error response, leaves the backend task alive and at the top of its
\* loop for the next tick.
C14_PollFailureTransient ==
    [][ (/\ back.pc = "recv" /\ cmdq = << >>
         /\ << back, net >>' # << back, net >>
         /\ net'.call = "get_text"
         /\ net'.kind \in {"network_error", "error"})
        => back'.pc = "recv" ]_vars

\* how many of the requests sent since the last draw are for the key
Fetches(k) == Cardinality({i \in 1..Len(log.fetches) : log.fetches[i] = k})

\* C15: when the frontend has sent the profile requests of a draw, it has
\* sent one RequestProfile for each key the draw found unknown and none for
\* any other key, however many of the messages drawn are of that key.
C15_OneRequestPerKey ==
    front.pc = "input" =>
        \A k \in SenderKeys : Fetches(k) = IF k \in log.observed THEN 1 ELSE 0

\* an answer to a profile request for the key is still on its way
ReplyInFlight(k) ==
    \/ back.pc = "respond"
    \/ \E i \in 1..Len(updq) :
          updq[i].cmd = "RespondProfile" /\ updq[i].profile.key = k

\* C16: once the backend has dealt with a RequestProfile for a key and the
\* frontend has taken the reply, state.users holds for the key the name of
\* the profile with verified as verify() gave it, or "Guest" unverified when
\* no profile was found or the request failed.
C16_ProfileResolved ==
    \A k \in SenderKeys :
        (log.handled[k].known /\ ~FrontGone /\ ~ReplyInFlight(k)) =>
            ProfileDisplay(k, log.handled[k].name, log.handled[k].verified)
                \in front.users

\* C17: a draw shows "Guest" for a message whose sender has no entry in
\* state.users, and once a draw has shown a sender as "Carol" every later
\* draw shows it as "Carol", until state.users is cleared.
C17_DisplayName ==
    [][ /\ front'.screen # front.screen =>
              \A i \in 1..Len(front'.screen) :
                  ~contains_key(front'.users, front'.messages[i].sender)
                      => front'.screen[i].name = "Guest"
        /\ (/\ \E i \in 1..Len(front.screen) : front.screen[i].name = "Carol"
            /\ ~(front.users # {} /\ front'.users = {}))
           => \A i \in 1..Len(front'.screen) : front'.screen[i].name = "Carol"
      ]_vars

\* the Poller task is over: backend returned or panicked
PollerFinished == BackGone

Handled(cmd) ==
    CASE cmd.cmd = "Exit" -> back'.pc = "returned"
      [] cmd.cmd = "SendMessage" -> net'.call = "post_text"
      [] cmd.cmd = "SendProfile" -> net'.call = "post_profile"
      [] cmd.cmd = "RequestProfile" ->
            net'.call = "get_profile" /\ log'.handled[cmd.target].known

\* a step changes the channel of commands by a send of the frontend at its
\* tail, there being room, or by a receive of the backend at its head
CommandStep ==
    \/ cmdq' = cmdq
    \/ /\ Len(cmdq) < QueueCap
       /\ \/ /\ front.pc = "drain"
             /\ cmdq' = Append(cmdq, RequestProfile(Head(front.unknown_users)))
          \/ /\ front.pc = "send"
             /\ cmdq' = Append(cmdq, front.out)
    \/ /\ cmdq # << >>
       /\ cmdq' = Tail(cmdq)
       /\ Handled(Head(cmdq))

\* the same of the channel of updates, sent by the backend and received by
\* the frontend, which takes the messages or the profile of what it receives
UpdateStep ==
    \/ updq' = updq
    \/ /\ Len(updq) < QueueCap
       /\ back.pc \in {"respond", "display"}
       /\ updq' = Append(updq, back.out)
    \/ /\ updq # << >>
       /\ updq' = Tail(updq)
       /\ Head(updq).cmd = "DisplayMessages" => front'.messages = Head(updq).messages
       /\ Head(updq).cmd = "RespondProfile" => Head(updq).profile \in front'.users

\* a sender that is not through keeps what it has to send, unless the other
\* end of the channel is dropped
NothingDropped ==
    /\ (front.pc = "drain" /\ front' # front /\ ~BackGone) =>
           cmdq' = Append(cmdq, RequestProfile(Head(front.unknown_users)))
    /\ (front.pc = "send" /\ front' # front /\ ~BackGone) =>
           cmdq' = Append(cmdq, front.out)
    /\ (back.pc \in {"respond", "display"} /\ back' # back /\ ~FrontGone) =>
           updq' = Append(updq, back.out)

\* C19: neither channel holds more messages than its capacity; a send on a
\* full channel waits and drops nothing; every message sent is received
\* once, in the order of the sends.
C19_BoundedOrderedQueues ==
    /\ [](Len(cmdq) <= QueueCap /\ Len(updq) <= QueueCap)
    /\ [][CommandStep /\ UpdateStep /\ NothingDropped]_vars

C19_Witness ==
    /\ Len(updq) = QueueCap
    /\ updq[1] # updq[QueueCap]
    /\ back.pc = "display"
    /\ ~FrontGone
    /\ cmdq # << >>

(***************************************************************************)
(* The relay on a database that fails.  Of the calls a handler makes to    *)
(* the database, in their order, the call numbered fail returns Err; with  *)
(* fail 0, or beyond the calls the handler makes, none does.               *)
(***************************************************************************)
Failures == 0..2

\* text.rs get_text: the lookup in users, then the select on posts
get_text_faulty(e, fail) ==
    LET v == verify(e)
        last_req == IF fail = 1 THEN NoLookup ELSE SelectLastRequest(e.key)
    IN  /\ req' = [op |-> "get_text", env |-> e, fail |-> fail]
        /\ UNCHANGED << posts, profiles, users >>
        /\ resp' = IF v = "panic" THEN Panicked
                   ELSE IF v # "true" THEN ErrorResponse("FAILED_VERIFY_SIGNATURE")
                   ELSE IF last_req.ok /\ e.timestamp <= last_req.row.lastrequest
                   THEN ErrorResponse("IMPOSSIBLE_TIMESTAMP")
                   ELSE IF fail = 2 THEN Panicked
                   ELSE OkResponse(SelectPosts)

\* text.rs post_text: the insert
post_text_faulty(e, fail) ==
    LET v == verify(e)
    IN  /\ req' = [op |-> "post_text", env |-> e, fail |-> fail]
        /\ UNCHANGED << profiles, users >>
        /\ IF v = "panic" THEN resp' = Panicked /\ UNCHANGED posts
           ELSE IF v # "true"
           THEN resp' = ErrorResponse("FAILED_VERIFY_SIGNATURE") /\ UNCHANGED posts
           ELSE IF fail = 1 THEN resp' = Panicked /\ UNCHANGED posts
           ELSE /\ Len(posts) < MaxPosts
                /\ posts' = Append(posts, PostRow(e))
                /\ resp' = OkResponse(<< >>)

\* profile.rs get_profile: the select
get_profile_faulty(e, fail) ==
    LET v == verify(e)
        profile == IF fail = 1 THEN NoLookup ELSE SelectProfile(e.data.target_key)
    IN  /\ req' = [op |-> "get_profile", env |-> e, fail |-> fail]
        /\ UNCHANGED << posts, profiles, users >>
        /\ resp' = IF v = "panic" THEN Panicked
                   ELSE IF v # "true" THEN ErrorResponse("FAILED_VERIFY_SIGNATURE")
                   ELSE IF ~profile.ok THEN ErrorResponse("PROFILE_NOT_FOUND")
                   ELSE OkResponse(<< ProfileOfRow(profile.row) >>)

\* profile.rs post_profile: the select of the name, then the update or the
\* insert
post_profile_faulty(e, fail) ==
    LET v == verify(e)
        found == IF fail = 1 THEN NoLookup ELSE SelectProfile(e.key)
    IN  /\ req' = [op |-> "post_profile", env |-> e, fail |-> fail]
        /\ UNCHANGED << posts, users >>
        /\ IF v = "panic" THEN resp' = Panicked /\ UNCHANGED profiles
           ELSE IF v # "true"
           THEN resp' = ErrorResponse("FAILED_VERIFY_SIGNATURE") /\ UNCHANGED profiles
           ELSE IF fail = 2 THEN resp' = Panicked /\ UNCHANGED profiles
           ELSE /\ resp' = OkResponse(<< >>)
                /\ IF found.ok
                   THEN profiles' = UpdateProfileName(e.data.name, e.key)
                   ELSE /\ Len(profiles) < MaxProfiles
                        /\ profiles' = Append(profiles, ProfileRow(e))

FaultyKeep == UNCHANGED << unique_sig, accepted, lastq, lastprof, env_vars, aux_vars >>

FaultyPostText ==
    \E e \in WithForged(PostInputs), fail \in Failures :
        post_text_faulty(e, fail) /\ FaultyKeep
FaultyGetText ==
    \E e \in WithForged(QueryInputs), fail \in Failures :
        get_text_faulty(e, fail) /\ FaultyKeep
FaultyPostProfile ==
    \E e \in WithForged(ProfileInputs), fail \in Failures :
        post_profile_faulty(e, fail) /\ FaultyKeep
FaultyGetProfile ==
    \E e \in WithForged(ProfileQueryInputs), fail \in Failures :
        get_profile_faulty(e, fail) /\ FaultyKeep

FaultyInit ==
    /\ StoreInit
    /\ unique_sig = FALSE
    /\ EnvIdle
    /\ AuxIdle

FaultyNext == FaultyPostText \/ FaultyGetText \/ FaultyPostProfile \/ FaultyGetProfile

SpecFaulty == FaultyInit /\ [][FaultyNext]_vars

\* a call to the database of the request just answered returned Err
StoreFailed ==
    /\ req.op # "none"
    /\ Verified(req.env)
    /\ \/ req.fail = 1
       \/ /\ req.fail = 2
          /\ req.op \in {"get_text", "post_profile"}
          /\ resp.code # "IMPOSSIBLE_TIMESTAMP"

\* C20: a request during which a call to the database failed is answered
\* with the error STORE_UNAVAILABLE: not with success, not with another
\* error, and not as if the database held no record.
C20_StoreFailureSurfaced ==
    StoreFailed => resp.code = "STORE_UNAVAILABLE" /\ resp.status # 200

(***************************************************************************)
(* The store with profiles of both key pairs, and an earlier answer to a   *)
(* query of posts kept in log to compare a later answer with.              *)
(***************************************************************************)
NoAnswerYet == [seen |-> FALSE, body |-> << >>]

frame_idle == << env_vars, ins, handlers, front, back, cmdq, updq, net >>

FrameInit ==
    /\ StoreInit
    /\ unique_sig \in BOOLEAN
    /\ EnvIdle
    /\ ins = << >>
    /\ handlers = << >>
    /\ front = << >>
    /\ back = << >>
    /\ cmdq = << >>
    /\ updq = << >>
    /\ net = << >>
    /\ log = NoAnswerYet

FramePostText ==
    \E e \in WithForged(PostInputs) : post_text(e) /\ UNCHANGED << frame_idle, log >>

\* any answered query may be the one a later answer is compared with
FrameGetText ==
    \E e \in WithForged(QueryInputs) :
        /\ get_text(e)
        /\ log' \in IF resp'.status = 200
                    THEN {log, [seen |-> TRUE, body |-> resp'.body]}
                    ELSE {log}
        /\ UNCHANGED frame_idle

FramePostProfile ==
    \E e \in WithForged(BothProfileInputs) : post_profile(e) /\ UNCHANGED << frame_idle, log >>

FrameGetProfile ==
    \E e \in WithForged(ProfileQueryInputs) : get_profile(e) /\ UNCHANGED << frame_idle, log >>

FrameNext == FramePostText \/ FrameGetText \/ FramePostProfile \/ FrameGetProfile

SpecFrame == FrameInit /\ [][FrameNext]_vars

\* C21: the post log is append-only.  No step of the store removes or alters
\* a row of posts: the rows before the step are the first rows after it.
\* And every post envelope of an earlier successful answer to get_text is,
\* unchanged, among the envelopes of a later successful answer.
C21_AppendOnly ==
    [][ /\ Len(posts) <= Len(posts')
        /\ \A i \in 1..Len(posts) : posts'[i] = posts[i]
        /\ (req'.op = "get_text" /\ resp'.status = 200 /\ log.seen) =>
                \A i \in 1..Len(log.body) :
                    \E j \in 1..Len(resp'.body) : resp'.body[j] = log.body[i]
      ]_vars

\* an answer with a post is followed by a longer successful answer
C21_Witness ==
    /\ log.seen
    /\ Len(log.body) = 1
    /\ req.op = "get_text"
    /\ resp.status = 200
    /\ Len(resp.body) = 2
    /\ resp.body[1] # resp.body[2]

\* the rows of profiles that belong to other keys
OtherRows(rows, key) == SelectSeq(rows, LAMBDA r : r.key # key)

\* C25: an accepted post_profile of key K changes only the profile row of K:
\* the rows of other keys, the post log and the users table stay as they
\* were.  An accepted post_text adds one row to posts and leaves profiles
\* and users as they were.  So the stored profile of a key changes only in
\* a step that accepts a profile envelope of that key.
C25_SubmitFrame ==
    [][ /\ (req'.op = "post_profile" /\ resp'.status = 200) =>
                /\ posts' = posts
                /\ users' = users
                /\ OtherRows(profiles', req'.env.key) = OtherRows(profiles, req'.env.key)
        /\ (req'.op = "post_text" /\ resp'.status = 200) =>
                /\ profiles' = profiles
                /\ users' = users
                /\ Len(posts') = Len(posts) + 1
                /\ SubSeq(posts', 1, Len(posts)) = posts
        /\ \A kp \in KeyPairs :
                StoredProfile(kp)' # StoredProfile(kp) =>
                    /\ req'.op = "post_profile"
                    /\ resp'.status = 200
                    /\ req'.env.key = KeyString(kp)
      ]_vars

\* a profile was renamed while the profile of the other key and a post
\* were stored
C25_Witness ==
    /\ Len(profiles) = 2
    /\ profiles[1].key # profiles[2].key
    /\ posts # << >>
    /\ req.op = "post_profile"
    /\ resp.status = 200
    /\ \E i \in 1..2 :
          /\ profiles[i].key = req.env.key
          /\ profiles[i].name = req.env.data.name
          /\ profiles[i].signature # req.env.signature
          /\ profiles[3 - i].name # req.env.data.name


(***************************************************************************)
(* The backend followed for its readings of the clock.  Every query        *)
(* envelope is stamped with SystemTime::now() in whole milliseconds; net   *)
(* holds the clock, log the timestamps of the query envelopes in the order *)
(* they were issued.  Between two readings the clock advances by the time  *)
(* the calls in between took, which may be less than a millisecond.        *)
(***************************************************************************)
\* how many query envelopes are issued
MaxIssued == 4
\* the most whole milliseconds a call to the relay adds to the clock
MaxElapsed == 1
\* tokio::time::sleep(Duration::from_millis(50))
SleepMillis == 50

ClockInit ==
    /\ StoreInit
    /\ unique_sig = FALSE
    /\ EnvIdle
    /\ ins = << >>
    /\ handlers = << >>
    /\ front = << >>
    /\ updq = << >>
    /\ back = [pc |-> "recv", out |-> NoCommand]
    /\ cmdq = << >>
    /\ net = [now |-> 1]
    /\ log = << >>

clock_idle == << store_vars, env_vars, ins, handlers, front, updq >>

\* the frontend sends a RequestProfile
clock_request ==
    /\ HasRoom(cmdq)
    /\ \E k \in SenderKeys : cmdq' = Append(cmdq, RequestProfile(k))
    /\ UNCHANGED << back, net, log >>

\* try_recv is Ok(RequestProfile): the request is signed with the reading of
\* the clock and sent, and the answer is passed on
clock_fetch ==
    /\ back.pc = "recv"
    /\ cmdq # << >>
    /\ Len(log) < MaxIssued
    /\ cmdq' = Tail(cmdq)
    /\ log' = Append(log, net.now)
    /\ \E d \in 0..MaxElapsed : net' = [now |-> net.now + d]
    /\ UNCHANGED back

\* try_recv is Err: the PostRequest is signed with the reading of the clock
\* and sent, and the answer is passed on
clock_poll ==
    /\ back.pc = "recv"
    /\ cmdq = << >>
    /\ Len(log) < MaxIssued
    /\ log' = Append(log, net.now)
    /\ \E d \in 0..MaxElapsed : net' = [now |-> net.now + d]
    /\ back' = [back EXCEPT !.pc = "sleep"]
    /\ UNCHANGED cmdq

\* the sleep at the end of the loop
clock_sleep ==
    /\ back.pc = "sleep"
    /\ \E d \in 0..MaxElapsed : net' = [now |-> net.now + SleepMillis + d]
    /\ back' = [back EXCEPT !.pc = "recv"]
    /\ UNCHANGED << cmdq, log >>

ClockRequest == clock_request /\ UNCHANGED clock_idle
ClockFetch == clock_fetch /\ UNCHANGED clock_idle
ClockPoll == clock_poll /\ UNCHANGED clock_idle
ClockSleep == clock_sleep /\ UNCHANGED clock_idle

ClockNext == ClockRequest \/ ClockFetch \/ ClockPoll \/ ClockSleep

SpecClock == ClockInit /\ [][ClockNext]_vars

\* C22: the timestamps of the query envelopes the backend issues, the
\* PostRequest of its poll and the ProfileRequest of a profile fetch alike,
\* are strictly increasing in the order of issue.
C22_IncreasingTimestamps ==
    \A i, j \in 1..Len(log) : i < j => log[i] < log[j]


(***************************************************************************)
(* More properties of the client, stated of SpecClient.                    *)
(***************************************************************************)
\* C23: while state.users holds an entry of a key, resolved or Guest, the
\* frontend sends no RequestProfile of that key: no step that starts with
\* the entry in the cache adds such a command to the channel.
C23_CacheStopsRequests ==
    [][ \A k \in SenderKeys :
            (contains_key(front.users, k) /\ Len(cmdq') > Len(cmdq)) =>
                cmdq'[Len(cmdq')] # RequestProfile(k)
      ]_vars

\* the sets of messages a poll can bring
PollResults == {ToMessages(b) : b \in PostBatches}

C28_DrainBeforeExit ==
    [][ (back.pc = "respond" /\ front.pc = "exited" /\ back' # back) =>
            back'.pc = "recv"
      ]_vars


(***************************************************************************)
(* The client polling a relay that holds more posts of an unknown sender   *)
(* than the two channels take together, with a user who looks on: no       *)
(* message, no profile and no q is typed.                                  *)
(***************************************************************************)
BurstLen == 2 * QueueCap + 2

BurstPosts ==
    [i \in 1..BurstLen |-> Signed_new(1, "s1", i, Post("general", "hello", NoMeta))]

BurstAnswers == {PostsBody(BurstPosts)}

BurstPoll == backend_poll_of(BurstAnswers) /\ UNCHANGED other_vars

BurstNext ==
    \/ FrontendRecv \/ FrontendRecvDone \/ FrontendRequest \/ FrontendInput
    \/ BackendRecv \/ BackendRespond \/ BurstPoll \/ BackendDisplay

SpecBurst == ClientInit /\ [][BurstNext]_vars

\* C26: the two tasks are never both waiting for room in a channel: the
\* frontend in a send on the full command channel while the backend is in a
\* send of RespondProfile or DisplayMessages on the full update channel.
C26_NoQueueDeadlock ==
    ~ (/\ front.pc \in {"drain", "send"}
       /\ ~HasRoom(cmdq)
       /\ ~BackGone
       /\ back.pc \in {"respond", "display"}
       /\ ~HasRoom(updq)
       /\ ~FrontGone)

====
